---- MODULE Spec2Model ----
(***************************************************************************)
(* A model of scripts/atmpsf.py: the driver that synthesizes (or loads) a  *)
(* turbulent atmosphere, shards a list of PSF targets over jobs, renders   *)
(* one PSF image per target in a worker pool and writes one file per       *)
(* target.                                                                 *)
(***************************************************************************)
EXTENDS Integers, Sequences, FiniteSets, TLC

(***************************************************************************)
(* Python float arithmetic (IEEE-754 binary64, round to nearest, ties to   *)
(* even) on the values the shard computation uses.  A float is a sign, a   *)
(* significand of MantBits bits (most significant first, leading bit 1)    *)
(* and the exponent of the leading bit; zero has the empty significand.    *)
(* All arithmetic is done on bit sequences so that no intermediate value   *)
(* exceeds a machine integer.                                              *)
(***************************************************************************)
MantBits == 53

Abs(n) == IF n < 0 THEN -n ELSE n

Sign(n) == IF n < 0 THEN -1 ELSE 1

Min(a, b) == IF a < b THEN a ELSE b

Max(a, b) == IF a > b THEN a ELSE b

RECURSIVE NatBits(_)
NatBits(n) == IF n = 0 THEN <<>> ELSE Append(NatBits(n \div 2), n % 2)

RECURSIVE BitsNat(_)
BitsNat(bits) ==
  IF bits = <<>> THEN 0
  ELSE 2 * BitsNat(SubSeq(bits, 1, Len(bits) - 1)) + bits[Len(bits)]

\* 2^i mod k by square and multiply
RECURSIVE PowMod2(_, _)
PowMod2(i, k) ==
  IF i = 0 THEN 1 % k
  ELSE LET h == PowMod2(i \div 2, k)
       IN  (h * h * (IF i % 2 = 1 THEN 2 ELSE 1)) % k

\* the remainder of long division of r by k after i binary digits
DivRem(r, k, i) == (r * PowMod2(i, k)) % k

\* cnt further binary digits of r/k (0 <= r < k), and the remainder left over
FracBits(r, k, cnt) ==
  [bits |-> [i \in 1..cnt |-> IF 2 * DivRem(r, k, i - 1) >= k THEN 1 ELSE 0],
   rem  |-> DivRem(r, k, cnt)]

\* number of zero digits that open the binary expansion of r/k (0 < r < k)
RECURSIVE LeadZeros(_, _)
LeadZeros(r, k) == IF 2 * r >= k THEN 0 ELSE 1 + LeadZeros(2 * r, k)

RECURSIVE Pow2(_)
Pow2(n) == IF n = 0 THEN 1 ELSE 2 * Pow2(n - 1)

\* the w low binary digits of v, most significant first
PadBits(v, w) == [i \in 1..w |-> (v \div Pow2(w - i)) % 2]

\* a bit string without its leading zeros
StripZeros(bits) ==
  IF \A i \in 1..Len(bits) : bits[i] = 0 THEN <<>>
  ELSE LET first == CHOOSE i \in 1..Len(bits) :
                      bits[i] = 1 /\ \A h \in 1..(i - 1) : bits[h] = 0
       IN  SubSeq(bits, first, Len(bits))

\* bits + 1 on a fixed-width bit string; carry tells whether it overflowed
IncBits(bits) ==
  IF \A i \in 1..Len(bits) : bits[i] = 1
  THEN [bits |-> [i \in 1..Len(bits) |-> 0], carry |-> 1]
  ELSE LET last == CHOOSE i \in 1..Len(bits) :
                     bits[i] = 0 /\ \A h \in (i + 1)..Len(bits) : bits[h] = 1
       IN  [bits  |-> [i \in 1..Len(bits) |->
                         IF i < last THEN bits[i] ELSE IF i = last THEN 1 ELSE 0],
            carry |-> 0]

FZero == [sign |-> 1, bits |-> <<>>, exp |-> 0]

\* round an exact value (leading bit 1, at least MantBits digits, sticky for
\* what lies beyond them) to nearest, ties to even
RoundNearestEven(sign, raw, sticky, exp) ==
  LET m   == SubSeq(raw, 1, MantBits)
      rb  == IF Len(raw) > MantBits THEN raw[MantBits + 1] ELSE 0
      st  == sticky \/ \E i \in (MantBits + 2)..Len(raw) : raw[i] = 1
      up  == rb = 1 /\ (st \/ m[MantBits] = 1)
      inc == IncBits(m)
  IN  IF ~up THEN [sign |-> sign, bits |-> m, exp |-> exp]
      ELSE IF inc.carry = 1
           THEN [sign |-> sign, bits |-> <<1>> \o SubSeq(inc.bits, 1, MantBits - 1),
                 exp |-> exp + 1]
           ELSE [sign |-> sign, bits |-> inc.bits, exp |-> exp]

\* int / int is true division, correctly rounded (denom # 0): the script needs
\* Python 3, its dump mode pickles with protocol 4
FloatDiv(numer, denom) ==
  IF numer = 0 THEN FZero
  ELSE LET num == Abs(numer)
           den == Abs(denom)
           sg  == Sign(numer) * Sign(denom)
           ip  == NatBits(num \div den)
           r0  == num % den
       IN  IF ip # <<>>
           THEN LET fb == FracBits(r0, den, MantBits + 1 - Len(ip))
                IN  RoundNearestEven(sg, ip \o fb.bits, fb.rem # 0, Len(ip) - 1)
           ELSE LET z  == LeadZeros(r0, den)
                    fz == FracBits(r0 * Pow2(z), den, MantBits + 1)
                IN  RoundNearestEven(sg, fz.bits, fz.rem # 0, -(z + 1))

\* the exact digits of bits * j, most significant first: the significand is
\* cut into six limbs of nine digits, multiplied limb by limb with carry
RECURSIVE MulLimbs(_, _, _, _)
MulLimbs(limbs, j, idx, carry) ==
  IF idx = 0 THEN NatBits(carry)
  ELSE LET t == limbs[idx] * j + carry
       IN  MulLimbs(limbs, j, idx - 1, t \div 512) \o PadBits(t % 512, 9)

MulBits(bits, j) ==
  LET padded == <<0>> \o bits
      limbs  == [l \in 1..6 |-> BitsNat(SubSeq(padded, 9 * (l - 1) + 1, 9 * l))]
  IN  StripZeros(MulLimbs(limbs, j, 6, 0))

\* float * int: the int converts exactly, the product is rounded once
FloatMulInt(x, j) ==
  IF x.bits = <<>> \/ j = 0 THEN FZero
  ELSE LET prod == MulBits(x.bits, Abs(j))
       IN  RoundNearestEven(x.sign * Sign(j), prod, FALSE,
                            x.exp + (Len(prod) - MantBits))

\* int(float): truncation toward zero
FloatToInt(x) ==
  IF x.bits = <<>> \/ x.exp < 0 THEN 0
  ELSE x.sign * BitsNat(SubSeq(x.bits, 1, x.exp + 1))

\* Python's seq[start:end] with negative and out-of-range indices
PyIndex(i, len) == IF i < 0 THEN Max(i + len, 0) ELSE Min(i, len)

PySlice(seq, start, end) ==
  SubSeq(seq, PyIndex(start, Len(seq)) + 1, PyIndex(end, Len(seq)))

\* the full, unsharded target list: entry i carries index i
FullThetas(npsf) == [k \in 1..npsf |-> k - 1]

psfs_per_job(npsf, njobs) == FloatDiv(npsf, njobs)

ShardStart(npsf, njobs, job) == FloatToInt(FloatMulInt(psfs_per_job(npsf, njobs), job))

ShardEndInclusive(npsf, njobs, job) ==
  FloatToInt(FloatMulInt(psfs_per_job(npsf, njobs), job + 1)) + 1

ShardEnd(npsf, njobs, job) == FloatToInt(FloatMulInt(psfs_per_job(npsf, njobs), job + 1))

ShardThetas(npsf, njobs, job) ==
  PySlice(FullThetas(npsf), ShardStart(npsf, njobs, job), ShardEnd(npsf, njobs, job))

(***************************************************************************)
(* File names.  A string is a sequence of one-character strings, so that   *)
(* formatting and str.replace are computed character by character.         *)
(***************************************************************************)
Digit == <<"0", "1", "2", "3", "4", "5", "6", "7", "8", "9">>

RECURSIVE DecStr(_)
DecStr(n) == IF n < 10 THEN <<Digit[n + 1]>> ELSE Append(DecStr(n \div 10), Digit[(n % 10) + 1])

\* "{}".format(n)
IntStr(n) == IF n < 0 THEN <<"-">> \o DecStr(-n) ELSE DecStr(n)

\* "{:06d}".format(n): sign first, then zeros up to the width
ZeroPad(n, width) ==
  LET body == DecStr(Abs(n))
      sg   == IF n < 0 THEN <<"-">> ELSE <<>>
      fill == Max(width - Len(body) - Len(sg), 0)
  IN  sg \o [i \in 1..fill |-> "0"] \o body

\* str.replace(old, new): every non-overlapping occurrence, left to right
RECURSIVE Replace(_, _, _)
Replace(str, old, new) ==
  IF Len(str) < Len(old) THEN str
  ELSE IF SubSeq(str, 1, Len(old)) = old
       THEN new \o Replace(SubSeq(str, Len(old) + 1, Len(str)), old, new)
       ELSE <<Head(str)>> \o Replace(Tail(str), old, new)

\* os.path.dirname: what precedes the last "/"
Dirname(path) ==
  IF \A i \in 1..Len(path) : path[i] # "/" THEN <<>>
  ELSE LET cut == CHOOSE i \in 1..Len(path) :
                    path[i] = "/" /\ \A h \in (i + 1)..Len(path) : path[h] # "/"
       IN  SubSeq(path, 1, cut - 1)

outprefix == <<"o", "u", "t", "p", "u", "t", "/">>

DotPkl == <<".", "p", "k", "l">>

psffilename(i) ==
  outprefix \o ZeroPad(i, 6) \o <<"-", "p", "s", "f", ".", "f", "i", "t", "s">>

metafilename(job, njobs) ==
  outprefix \o <<"m", "e", "t", "a", "_">> \o IntStr(job) \o <<"_">> \o IntStr(njobs) \o DotPkl

atmfile(name) == outprefix \o name

thisatmfile(name, i) == Replace(atmfile(name), DotPkl, <<"_">> \o IntStr(i) \o DotPkl)

\* argparse's default for --dump_atm and --load_atm
None == <<"None">>

(***************************************************************************)
(* The state.  Up to two invocations of the script (Runs) work on one file *)
(* system.  Per invocation: its parsed arguments, its position in          *)
(* __main__, how it ended, the target list, the atmosphere, the state of   *)
(* the per-screen load loop and of the pool's tasks.                       *)
(***************************************************************************)
VARIABLES
  args,       \* args[r]: the argparse namespace of invocation r
  pc,         \* pc[r]: position of invocation r in __main__
  status,     \* status[r]: "running", "ok" (exit 0) or the exception that ended it
  thetas,     \* thetas[r]: the target list, a sequence of target indices
  atm,        \* atm[r]: the global atmosphere object
  screens,    \* screens[r]: the list the per-screen load loop appends to
  scan,       \* scan[r]: the loop index i of the per-screen dump and load loops
  task,       \* task[r][k]: progress of makePSFImage on thetas[r][k]
  successes,  \* successes[r][k]: what makePSFImage returned for thetas[r][k]
  disk,       \* path -> content of every directory and file that exists
  wrote,      \* history: wrote[r] = <<path, writer>> for every file written by r
  rendered,   \* history: rendered[r] = the tasks for which getPSFImage was called
  origin,     \* history: how invocation r was started
  snap,       \* history: snap[r] = the file system when invocation r started
  pooled,     \* history: pooled[r] = invocation r has created its worker pool
  part        \* the job partitioner applied job by job (SpecPart)

vars == <<args, pc, status, thetas, atm, screens, scan, task, successes, disk,
          wrote, rendered, origin, snap, pooled, part>>

runvars == <<args, pc, status, thetas, atm, screens, scan, task, successes, disk,
             wrote, rendered, origin, snap, pooled>>

Runs == {1, 2}

\* bounds of the render-mode specification
MaxNpsf == 2

MaxNjobs == 2

MaxLayers == 2

MaxProc == 2

\* the per-screen load loop is cut off after MaxScan screens
MaxScan == 5

\* args.seed (default 1) names the synthesized atmosphere; 0 names older files
seed == 1

NoAtm == [kind |-> "none"]

EmptyDisk == [p \in {} |-> NoAtm]

IsDump(r) == args[r].dump_atm # None

exists(path) == path \in DOMAIN disk

isdir(path) == exists(path) /\ disk[path].kind = "dir"

isfile(path) == exists(path) /\ disk[path].kind # "dir"

Files == {p \in DOMAIN disk : disk[p].kind # "dir"}

\* open(path, 'wb') followed by a complete write
WriteFile(path, content) == (path :> content) @@ disk

Exit(r, how) ==
  /\ pc' = [pc EXCEPT ![r] = "exit"]
  /\ status' = [status EXCEPT ![r] = how]

\* lines 198-202 and 219-223: make sure the output directory exists
DirOk(dir) == ~exists(dir) \/ isdir(dir)

EnsureDir(dir) == IF exists(dir) THEN disk ELSE WriteFile(dir, [kind |-> "dir"])

\* galsim.Atmosphere: one screen per layer, determined by the seed
Atmosphere(nlayers) ==
  [kind    |-> "atm",
   screens |-> [i \in 1..Max(nlayers, 0) |->
                  [kind |-> "screen", seed |-> seed, layer |-> i - 1, of |-> nlayers]]]

\* get_atm returns the atmosphere of args.nlayers layers
get_atm(a) == Atmosphere(a.nlayers)

\* line 39 divides by nlayers - 1: with fewer than two layers the altitudes are
\* 0/0 or empty, and whether numpy and galsim then raise is theirs to decide
GetAtmMayRaise(a) == a.nlayers < 2

(***************************************************************************)
(* Dump mode, lines 194-215.                                               *)
(***************************************************************************)
DumpDir(r) ==
  /\ pc[r] = "main" /\ IsDump(r)
  /\ LET dir == Dirname(atmfile(args[r].dump_atm)) IN
       IF DirOk(dir)
       THEN /\ disk' = EnsureDir(dir)
            /\ pc' = [pc EXCEPT ![r] = "dump_get_atm"]
            /\ UNCHANGED status
       ELSE /\ Exit(r, "RuntimeError: Atm output directory is not a directory!")
            /\ UNCHANGED disk
  /\ UNCHANGED <<args, thetas, atm, screens, scan, task, successes, wrote, rendered,
                 origin, snap, pooled, part>>

DumpGetAtm(r) ==
  /\ pc[r] = "dump_get_atm"
  /\ \/ /\ atm' = [atm EXCEPT ![r] = get_atm(args[r])]
        /\ pc' = [pc EXCEPT ![r] = "dump_write"]
        /\ UNCHANGED status
     \/ /\ GetAtmMayRaise(args[r])
        /\ Exit(r, "get_atm raised")
        /\ UNCHANGED atm
  /\ UNCHANGED <<args, thetas, screens, scan, task, successes, disk, wrote, rendered,
                 origin, snap, pooled, part>>

AfterDumpFallThrough == "meta_dir"

\* after the dump the script calls sys.exit()
AfterDump == "exit"

\* one iteration of the loop of lines 208-211
DumpScreen(r) ==
  /\ pc[r] = "dump_write" /\ args[r].dump_indiv_screens
  /\ scan[r] < Len(atm[r].screens)
  /\ LET file == thisatmfile(args[r].dump_atm, scan[r]) IN
       /\ disk' = WriteFile(file, atm[r].screens[scan[r] + 1])
       /\ wrote' = [wrote EXCEPT ![r] = @ \cup {<<file, <<"screen", scan[r]>>>>}]
  /\ scan' = [scan EXCEPT ![r] = @ + 1]
  /\ UNCHANGED <<args, pc, status, thetas, atm, screens, task, successes, rendered,
                 origin, snap, pooled, part>>

\* the loop of lines 208-211 is over: line 215
DumpScreensExit(r) ==
  /\ pc[r] = "dump_write" /\ args[r].dump_indiv_screens
  /\ scan[r] = Len(atm[r].screens)
  /\ pc' = [pc EXCEPT ![r] = AfterDump]
  /\ status' = [status EXCEPT ![r] = IF AfterDump = "exit" THEN "ok" ELSE @]
  /\ UNCHANGED <<args, thetas, atm, screens, scan, task, successes, disk, wrote,
                 rendered, origin, snap, pooled, part>>

\* lines 212-215
DumpWhole(r) ==
  /\ pc[r] = "dump_write" /\ ~args[r].dump_indiv_screens
  /\ LET file == atmfile(args[r].dump_atm) IN
       /\ disk' = WriteFile(file, atm[r])
       /\ wrote' = [wrote EXCEPT ![r] = @ \cup {<<file, <<"atm">>>>}]
  /\ pc' = [pc EXCEPT ![r] = AfterDump]
  /\ status' = [status EXCEPT ![r] = IF AfterDump = "exit" THEN "ok" ELSE @]
  /\ UNCHANGED <<args, thetas, atm, screens, scan, task, successes, rendered,
                 origin, snap, pooled, part>>

(***************************************************************************)
(* Render mode, lines 217-294.                                             *)
(***************************************************************************)
\* lines 217-223
MetaDir(r) ==
  /\ \/ pc[r] = "main" /\ ~IsDump(r)
     \/ pc[r] = "meta_dir"
  /\ LET dir == Dirname(metafilename(args[r].job, args[r].njobs)) IN
       IF DirOk(dir)
       THEN /\ disk' = EnsureDir(dir)
            /\ pc' = [pc EXCEPT ![r] = "shard"]
            /\ UNCHANGED status
       ELSE /\ Exit(r, "RuntimeError: Output directory is not a directory!")
            /\ UNCHANGED disk
  /\ UNCHANGED <<args, thetas, atm, screens, scan, task, successes, wrote, rendered,
                 origin, snap, pooled, part>>

\* lines 225-229: the division raises when njobs is 0
Shard(r) ==
  /\ pc[r] = "shard"
  /\ IF args[r].njobs = 0
     THEN /\ Exit(r, "ZeroDivisionError")
          /\ UNCHANGED thetas
     ELSE /\ thetas' = [thetas EXCEPT ![r] =
                          PySlice(@, ShardStart(args[r].npsf, args[r].njobs, args[r].job),
                                     ShardEnd(args[r].npsf, args[r].njobs, args[r].job))]
          /\ pc' = [pc EXCEPT ![r] = "meta"]
          /\ UNCHANGED status
  /\ UNCHANGED <<args, atm, screens, scan, task, successes, disk, wrote, rendered,
                 origin, snap, pooled, part>>

\* lines 231-232
WriteMeta(r) ==
  /\ pc[r] = "meta"
  /\ LET file == metafilename(args[r].job, args[r].njobs) IN
       IF ~exists(file) \/ args[r].clobber
       THEN /\ disk' = WriteFile(file, [kind |-> "meta", job |-> args[r].job,
                                        njobs |-> args[r].njobs, thetas |-> thetas[r]])
            /\ wrote' = [wrote EXCEPT ![r] = @ \cup {<<file, <<"meta">>>>}]
       ELSE UNCHANGED <<disk, wrote>>
  /\ pc' = [pc EXCEPT ![r] = "check_done"]
  /\ UNCHANGED <<args, status, thetas, atm, screens, scan, task, successes, rendered,
                 origin, snap, pooled, part>>

\* lines 236-242
done(r) == \A k \in 1..Len(thetas[r]) : exists(psffilename(thetas[r][k]))

\* lines 234-245
CheckDone(r) ==
  /\ pc[r] = "check_done"
  /\ IF ~args[r].clobber /\ done(r)
     THEN Exit(r, "ok")
     ELSE /\ pc' = [pc EXCEPT ![r] = "atm"]
          /\ UNCHANGED status
  /\ UNCHANGED <<args, thetas, atm, screens, scan, task, successes, disk, wrote,
                 rendered, origin, snap, pooled, part>>

\* lines 254-258: one iteration of the per-screen load loop
LoadScreen(r) ==
  /\ pc[r] = "atm" /\ args[r].load_atm # None /\ args[r].dump_indiv_screens
  /\ isfile(thisatmfile(args[r].load_atm, scan[r]))
  /\ scan[r] < MaxScan
  /\ screens' = [screens EXCEPT ![r] =
                   Append(@, disk[thisatmfile(args[r].load_atm, scan[r])])]
  /\ scan' = [scan EXCEPT ![r] = @ + 1]
  /\ UNCHANGED <<args, pc, status, thetas, atm, task, successes, disk, wrote, rendered,
                 origin, snap, pooled, part>>

\* lines 254 and 259: the probed file is missing, the loop ends
LoadScreensDone(r) ==
  /\ pc[r] = "atm" /\ args[r].load_atm # None /\ args[r].dump_indiv_screens
  /\ ~isfile(thisatmfile(args[r].load_atm, scan[r]))
  /\ atm' = [atm EXCEPT ![r] = [kind |-> "atm", screens |-> screens[r]]]
  /\ pc' = [pc EXCEPT ![r] = "aperture"]
  /\ UNCHANGED <<args, status, thetas, screens, scan, task, successes, disk, wrote,
                 rendered, origin, snap, pooled, part>>

\* lines 260-262
LoadWhole(r) ==
  /\ pc[r] = "atm" /\ args[r].load_atm # None /\ ~args[r].dump_indiv_screens
  /\ IF isfile(atmfile(args[r].load_atm))
     THEN /\ atm' = [atm EXCEPT ![r] = disk[atmfile(args[r].load_atm)]]
          /\ pc' = [pc EXCEPT ![r] = "aperture"]
          /\ UNCHANGED status
     ELSE /\ Exit(r, "open raised")
          /\ UNCHANGED atm
  /\ UNCHANGED <<args, thetas, screens, scan, task, successes, disk, wrote, rendered,
                 origin, snap, pooled, part>>

\* lines 263-271
Synthesize(r) ==
  /\ pc[r] = "atm" /\ args[r].load_atm = None
  /\ \/ /\ atm' = [atm EXCEPT ![r] = get_atm(args[r])]
        /\ pc' = [pc EXCEPT ![r] = "aperture"]
        /\ UNCHANGED status
     \/ /\ GetAtmMayRaise(args[r])
        /\ Exit(r, "get_atm raised")
        /\ UNCHANGED atm
  /\ UNCHANGED <<args, thetas, screens, scan, task, successes, disk, wrote, rendered,
                 origin, snap, pooled, part>>

\* a screen list galsim.Aperture is certain to accept: at least one screen, each
\* a phase screen of a synthesis with two layers or more
ProperAtm(a) ==
  /\ a.kind = "atm"
  /\ Len(a.screens) > 0
  /\ \A i \in 1..Len(a.screens) : a.screens[i].kind = "screen" /\ a.screens[i].of >= 2

\* lines 276-285
MakeAperture(r) ==
  /\ pc[r] = "aperture"
  /\ \/ /\ pc' = [pc EXCEPT ![r] = "pool"]
        /\ UNCHANGED status
     \/ /\ ~ProperAtm(atm[r])
        /\ Exit(r, "galsim.Aperture raised")
  /\ UNCHANGED <<args, thetas, atm, screens, scan, task, successes, disk, wrote,
                 rendered, origin, snap, pooled, part>>

\* lines 287-289: the pool is created and every target handed to it
StartPool(r) ==
  /\ pc[r] = "pool"
  /\ IF args[r].nproc < 1
     THEN /\ Exit(r, "ValueError: Number of processes must be at least 1")
          /\ UNCHANGED <<task, successes, pooled>>
     ELSE /\ task' = [task EXCEPT ![r] = [k \in 1..Len(thetas[r]) |-> "queued"]]
          /\ successes' = [successes EXCEPT ![r] = [k \in 1..Len(thetas[r]) |-> "pending"]]
          /\ pooled' = [pooled EXCEPT ![r] = TRUE]
          /\ pc' = [pc EXCEPT ![r] = "map"]
          /\ UNCHANGED status
  /\ UNCHANGED <<args, thetas, atm, screens, scan, disk, wrote, rendered, origin, snap,
                 part>>

Running(r) == {k \in 1..Len(task[r]) : task[r][k] \in {"render", "write"}}

SkipWhenClobber(r, file) == exists(file) /\ args[r].clobber

\* line 94
SkipExisting(r, file) == exists(file) /\ ~args[r].clobber

ExceptResultTrue == "True"

\* line 100: what makePSFImage returns from its except clause
ExceptResult == "False"

\* lines 92-95: a free worker takes a queued target
TaskStart(r, k) ==
  /\ pc[r] = "map" /\ k \in 1..Len(task[r]) /\ task[r][k] = "queued"
  /\ Cardinality(Running(r)) < args[r].nproc
  /\ IF SkipExisting(r, psffilename(thetas[r][k]))
     THEN /\ task' = [task EXCEPT ![r][k] = "skipped"]
          /\ successes' = [successes EXCEPT ![r][k] = "True"]
     ELSE /\ task' = [task EXCEPT ![r][k] = "render"]
          /\ UNCHANGED successes
  /\ UNCHANGED <<args, pc, status, thetas, atm, screens, scan, disk, wrote, rendered,
                 origin, snap, pooled, part>>

\* line 97: getPSFImage returns an image or raises
TaskRender(r, k) ==
  /\ pc[r] = "map" /\ k \in 1..Len(task[r]) /\ task[r][k] = "render"
  /\ rendered' = [rendered EXCEPT ![r] = @ \cup {k}]
  /\ \/ /\ task' = [task EXCEPT ![r][k] = "write"]
        /\ UNCHANGED successes
     \/ /\ task' = [task EXCEPT ![r][k] = "render_failed"]
        /\ successes' = [successes EXCEPT ![r][k] = ExceptResult]
  /\ UNCHANGED <<args, pc, status, thetas, atm, screens, scan, disk, wrote, origin,
                 snap, pooled, part>>

\* line 98: galsim.fits.write writes the file or raises (leaving what was there)
TaskWrite(r, k) ==
  /\ pc[r] = "map" /\ k \in 1..Len(task[r]) /\ task[r][k] = "write"
  /\ \/ /\ disk' = WriteFile(psffilename(thetas[r][k]),
                             [kind |-> "psf", idx |-> thetas[r][k], atm |-> atm[r]])
        /\ wrote' = [wrote EXCEPT ![r] =
                       @ \cup {<<psffilename(thetas[r][k]), <<"task", k>>>>}]
        /\ task' = [task EXCEPT ![r][k] = "written"]
        /\ successes' = [successes EXCEPT ![r][k] = "True"]
     \/ /\ task' = [task EXCEPT ![r][k] = "write_failed"]
        /\ successes' = [successes EXCEPT ![r][k] = ExceptResult]
        /\ UNCHANGED <<disk, wrote>>
  /\ UNCHANGED <<args, pc, status, thetas, atm, screens, scan, rendered, origin, snap,
                 pooled, part>>

\* line 293: all(successes)
all(results) == \A k \in 1..Len(results) : results[k] = "True"

\* lines 289-294: pool.map returns once every target has returned
PoolJoin(r) ==
  /\ pc[r] = "map"
  /\ \A k \in 1..Len(task[r]) : successes[r][k] # "pending"
  /\ Exit(r, IF all(successes[r]) THEN "ok" ELSE "RuntimeError: Failed to draw all PSFs")
  /\ UNCHANGED <<args, thetas, atm, screens, scan, task, successes, disk, wrote,
                 rendered, origin, snap, pooled, part>>

(***************************************************************************)
(* Invocations.                                                            *)
(***************************************************************************)
IdleArgs ==
  [npsf |-> 0, njobs |-> 1, job |-> 0, clobber |-> FALSE, dump_atm |-> None,
   load_atm |-> None, dump_indiv_screens |-> FALSE, nlayers |-> 2, nproc |-> 1]

\* lines 180-192: the arguments are parsed and the full target list is drawn
Invoke(r, a, how) ==
  /\ pc[r] = "idle"
  /\ args' = [args EXCEPT ![r] = a]
  /\ pc' = [pc EXCEPT ![r] = "main"]
  /\ status' = [status EXCEPT ![r] = "running"]
  /\ thetas' = [thetas EXCEPT ![r] = FullThetas(a.npsf)]
  /\ origin' = [origin EXCEPT ![r] = how]
  /\ snap' = [snap EXCEPT ![r] = disk]
  /\ UNCHANGED <<atm, screens, scan, task, successes, disk, wrote, rendered, pooled, part>>

\* the same command line is run again once the first invocation has ended
Rerun ==
  /\ pc[1] = "exit"
  /\ Invoke(2, args[1], "rerun")

\* after a dump, the same command line with --load_atm in place of --dump_atm
LoadAfterDump ==
  /\ pc[1] = "exit" /\ status[1] = "ok" /\ IsDump(1)
  /\ Invoke(2, [args[1] EXCEPT !.dump_atm = None, !.load_atm = args[1].dump_atm], "load")

\* the state of the invocations before any of them has moved
InitRuns(a1, a2, d) ==
  /\ args = <<a1, a2>>
  /\ pc = <<"main", IF a2 = IdleArgs THEN "idle" ELSE "main">>
  /\ status = <<"running", "running">>
  /\ thetas = <<FullThetas(a1.npsf), FullThetas(a2.npsf)>>
  /\ atm = <<NoAtm, NoAtm>>
  /\ screens = <<<<>>, <<>>>>
  /\ scan = <<0, 0>>
  /\ task = <<<<>>, <<>>>>
  /\ successes = <<<<>>, <<>>>>
  /\ disk = d
  /\ wrote = <<{}, {}>>
  /\ rendered = <<{}, {}>>
  /\ origin = <<"first", IF a2 = IdleArgs THEN "idle" ELSE "concurrent">>
  /\ snap = <<d, d>>
  /\ pooled = <<FALSE, FALSE>>

NoPart == [npsf |-> 0, njobs |-> 0, job |-> 0, slices |-> <<>>]

OutDir == Dirname(outprefix)

DirDisk == (OutDir :> [kind |-> "dir"])

\* a PSF image left by an earlier run of another configuration
StalePsf(i) == [kind |-> "psf", idx |-> i, atm |-> NoAtm]

StaleMeta(job, njobs) == [kind |-> "meta", job |-> job, njobs |-> njobs, thetas |-> <<>>]

PsfDisk(S) == [p \in {psffilename(i) : i \in S} |->
                 StalePsf(CHOOSE i \in S : psffilename(i) = p)]

\* file systems a render-mode run may find: no output directory, a regular file
\* in its place, or the directory with some PSF images and maybe the metadata
RenderDisks(a) ==
  {EmptyDisk, (OutDir :> [kind |-> "file"])}
    \cup {PsfDisk(S) @@ DirDisk : S \in SUBSET (0..(MaxNpsf - 1))}
    \cup {(metafilename(a.job, a.njobs) :> StaleMeta(a.job, a.njobs)) @@ PsfDisk(S) @@ DirDisk :
            S \in SUBSET (0..(MaxNpsf - 1))}

RenderArgs ==
  [npsf : 0..MaxNpsf, njobs : (-1)..MaxNjobs, job : (-1)..(MaxNjobs + 1),
   clobber : BOOLEAN, dump_atm : {None}, load_atm : {None},
   dump_indiv_screens : {FALSE}, nlayers : 1..MaxLayers, nproc : {MaxProc}]

Init ==
  /\ \E a \in RenderArgs : \E d \in RenderDisks(a) : InitRuns(a, IdleArgs, d)
  /\ part = NoPart

RenderStep(r) ==
  \/ MetaDir(r)
  \/ Shard(r)
  \/ WriteMeta(r)
  \/ CheckDone(r)
  \/ Synthesize(r)
  \/ MakeAperture(r)
  \/ StartPool(r)
  \/ \E k \in 1..Len(task[r]) : TaskStart(r, k)
  \/ \E k \in 1..Len(task[r]) : TaskRender(r, k)
  \/ \E k \in 1..Len(task[r]) : TaskWrite(r, k)
  \/ PoolJoin(r)

Next ==
  \/ \E r \in Runs : RenderStep(r)
  \/ Rerun

Spec == Init /\ [][Next]_vars

(***************************************************************************)
(* SpecAtm: dumping and loading the atmosphere.  The first invocation runs *)
(* with any of --dump_atm, --load_atm and --dump_indiv_screens on a file   *)
(* system that may hold the files of an earlier dump; after a dump the     *)
(* atmosphere is loaded back by a second invocation.                       *)
(***************************************************************************)
APkl == <<"a", ".", "p", "k", "l">>

AtmNames == {APkl, <<"a">>}

AtmNpsf == 1

AtmNjobs == 1

\* the screens of an atmosphere synthesized earlier from another seed
StaleScreen(i, n) == [kind |-> "screen", seed |-> 0, layer |-> i, of |-> n]

StaleAtm(n) == [kind |-> "atm", screens |-> [i \in 1..n |-> StaleScreen(i - 1, n)]]

\* what dump mode leaves on disk: one file, or one file per screen (a later
\* screen overwrites an earlier one written under the same name)
RECURSIVE DumpedScreens(_, _, _)
DumpedScreens(name, n, i) ==
  IF i = 0 THEN EmptyDisk
  ELSE (thisatmfile(name, i - 1) :> StaleScreen(i - 1, n)) @@ DumpedScreens(name, n, i - 1)

AtmDisks ==
  {EmptyDisk, (OutDir :> [kind |-> "file"]), DirDisk}
    \cup {(atmfile(name) :> StaleAtm(n)) @@ DirDisk :
            name \in AtmNames, n \in 2..(MaxLayers + 1)}
    \cup {DumpedScreens(name, n, n) @@ DirDisk :
            name \in AtmNames, n \in 2..(MaxLayers + 1)}

AtmArgs ==
  [npsf : 0..AtmNpsf, njobs : 0..AtmNjobs, job : 0..AtmNjobs,
   clobber : BOOLEAN, dump_atm : {None} \cup AtmNames, load_atm : {None} \cup AtmNames,
   dump_indiv_screens : BOOLEAN, nlayers : 1..MaxLayers, nproc : {1}]

InitAtm ==
  /\ \E a \in AtmArgs : \E d \in AtmDisks : InitRuns(a, IdleArgs, d)
  /\ part = NoPart

DumpStep(r) ==
  \/ DumpDir(r)
  \/ DumpGetAtm(r)
  \/ DumpScreen(r)
  \/ DumpScreensExit(r)
  \/ DumpWhole(r)

LoadStep(r) ==
  \/ LoadScreen(r)
  \/ LoadScreensDone(r)
  \/ LoadWhole(r)

NextAtm ==
  \/ \E r \in Runs : DumpStep(r)
  \/ \E r \in Runs : LoadStep(r)
  \/ \E r \in Runs : RenderStep(r)
  \/ LoadAfterDump

SpecAtm == InitAtm /\ [][NextAtm]_vars

(***************************************************************************)
(* SpecPart: the job partitioner of lines 225-229 as a function, applied   *)
(* to job 0, 1, ..., njobs - 1 of one (npsf, njobs) in turn.               *)
(***************************************************************************)
PartNpsf == 15

PartNjobs == 11

InitPart ==
  /\ InitRuns(IdleArgs, IdleArgs, EmptyDisk)
  /\ \E n \in 0..PartNpsf : \E k \in 1..PartNjobs :
       part = [npsf |-> n, njobs |-> k, job |-> 0, slices |-> <<>>]

PartitionJob ==
  /\ part.job < part.njobs
  /\ part' = [part EXCEPT !.job = @ + 1,
                          !.slices = Append(@, ShardThetas(part.npsf, part.njobs, part.job))]
  /\ UNCHANGED runvars

NextPart == PartitionJob

SpecPart == InitPart /\ [][NextPart]_vars

(***************************************************************************)
(* SpecConc: two render-mode invocations for two different valid jobs of   *)
(* the same (npsf, njobs), started together on the same output prefix.     *)
(***************************************************************************)
ConcNpsf == 4

ConcNjobs == 3

ConcArgs(n, k, j, c) ==
  [npsf |-> n, njobs |-> k, job |-> j, clobber |-> c, dump_atm |-> None,
   load_atm |-> None, dump_indiv_screens |-> FALSE, nlayers |-> 2, nproc |-> MaxProc]

\* every small (npsf, njobs), and the last two jobs of the largest partition of
\* SpecPart, where the float product of line 227 is not the exact quotient
ConcShards ==
  {<<n, k, j1, j2>> \in (0..ConcNpsf) \X (2..ConcNjobs) \X (0..ConcNjobs) \X (0..ConcNjobs) :
     j1 < j2 /\ j2 < k}
    \cup {<<PartNpsf, PartNjobs, PartNjobs - 2, PartNjobs - 1>>}

InitConc ==
  /\ \E sh \in ConcShards : \E c \in BOOLEAN :
       InitRuns(ConcArgs(sh[1], sh[2], sh[3], c), ConcArgs(sh[1], sh[2], sh[4], c), DirDisk)
  /\ part = NoPart

NextConc == \E r \in Runs : RenderStep(r)

SpecConc == InitConc /\ [][NextConc]_vars

(***************************************************************************)
(* Properties.                                                             *)
(***************************************************************************)
Started(r) == origin[r] # "idle"

TaskIds(r) == 1..Len(task[r])

\* the slice [floor(npsf*j/njobs), floor(npsf*(j+1)/njobs)) of the full list
FloorSlice(npsf, njobs, j) ==
  SubSeq(FullThetas(npsf), (npsf * j) \div njobs + 1, (npsf * (j + 1)) \div njobs)

RECURSIVE Concat(_)
Concat(seqs) == IF seqs = <<>> THEN <<>> ELSE Head(seqs) \o Concat(Tail(seqs))

\* C1: the slice of every job j is the range [floor(npsf*j/njobs),
\* floor(npsf*(j+1)/njobs)) of the full target list, and the slices of jobs
\* 0..njobs-1 concatenated in job order are the full target list.
C1_PartitionExact ==
  /\ \A j \in 1..Len(part.slices) :
       part.slices[j] = FloorSlice(part.npsf, part.njobs, j - 1)
  /\ (part.njobs >= 1 /\ part.job = part.njobs)
       => Concat(part.slices) = FullThetas(part.npsf)

InvalidSharding(a) == a.njobs <= 0 \/ a.job < 0 \/ a.job >= a.njobs

\* arguments the specification accepts: at least two layers, a job of the range
ValidArgs(a) == a.nlayers >= 2 /\ ~InvalidSharding(a)

\* C2: a render-mode run with njobs <= 0, job < 0 or job >= njobs renders
\* nothing and never ends with exit status zero.
C2_InvalidShardingRejected ==
  \A r \in Runs :
    (Started(r) /\ ~IsDump(r) /\ InvalidSharding(args[r]))
      => /\ rendered[r] = {}
         /\ pc[r] = "exit" => status[r] # "ok"

FailedToDraw == "RuntimeError: Failed to draw all PSFs"

\* C3: once the pool runs, a target reports failure exactly when its own render
\* or write raised and success exactly when it was skipped as present or
\* written; the run ends only after every target of the shard has returned, it
\* ends in failure if and only if some target reported failure, and the files
\* of the targets that were written are on disk.
C3_FailureIsolation ==
  \A r \in Runs :
    pooled[r] =>
      /\ \A k \in TaskIds(r) :
           /\ successes[r][k] = "False" <=> task[r][k] \in {"render_failed", "write_failed"}
           /\ successes[r][k] = "True" <=> task[r][k] \in {"skipped", "written"}
           /\ task[r][k] = "written" => exists(psffilename(thetas[r][k]))
      /\ pc[r] = "exit" =>
           /\ \A k \in TaskIds(r) : successes[r][k] # "pending"
           /\ status[r] \in {"ok", FailedToDraw}
           /\ status[r] = FailedToDraw <=> \E k \in TaskIds(r) : successes[r][k] = "False"

\* C3 witness: a run of two targets has ended, the first target's render raised,
\* the second was rendered and written, and the run failed.
C3_Witness ==
  /\ pc[1] = "exit" /\ pooled[1] /\ status[1] = FailedToDraw
  /\ Len(task[1]) = 2
  /\ task[1][1] = "render_failed" /\ task[1][2] = "written"

\* C4: after a render-mode run, no target that the run reported as failed has
\* its output file on disk.
C4_FailedLeavesNoFile ==
  \A r \in Runs :
    (pooled[r] /\ pc[r] = "exit" /\ ValidArgs(args[r]))
      => \A k \in TaskIds(r) :
           successes[r][k] = "False" => ~exists(psffilename(thetas[r][k]))

TaskWrites(r) == {e \in wrote[r] : e[2][1] = "task"}

\* with --clobber unset, a target whose file is there is neither rendered nor
\* rewritten and counts as a success
SkipsPresent(r) ==
  (Started(r) /\ ~args[r].clobber) =>
    \A k \in TaskIds(r) :
      /\ task[r][k] = "skipped" =>
           /\ successes[r][k] = "True"
           /\ k \notin rendered[r]
           /\ <<psffilename(thetas[r][k]), <<"task", k>>>> \notin wrote[r]
      /\ psffilename(thetas[r][k]) \in DOMAIN snap[r] => task[r][k] \in {"queued", "skipped"}

SecondRunIdle ==
  /\ rendered[2] = {}
  /\ wrote[2] = {}
  /\ ~pooled[2]
  /\ pc[2] = "exit" => (status[2] = "ok" /\ disk = snap[2])

\* C5 as stated: a second render-mode run of the same (valid) configuration
\* with --clobber unset, in an output directory that exists, renders nothing,
\* writes nothing, leaves the files as they were and exits zero.
C5_RerunIdempotent ==
  /\ (origin[2] = "rerun" /\ ~args[1].clobber /\ ValidArgs(args[1]) /\ isdir(OutDir))
       => SecondRunIdle
  /\ \A r \in Runs : SkipsPresent(r)

\* C5 amended: the same, for a second run that follows a first run that exited
\* zero.
C5_RerunAfterSuccess ==
  /\ (origin[2] = "rerun" /\ ~args[1].clobber /\ status[1] = "ok") => SecondRunIdle
  /\ \A r \in Runs : SkipsPresent(r)

\* C5 witness: a first run rendered and wrote two targets and exited zero, and
\* the second run of the same command line has ended.
C5_Witness ==
  /\ origin[2] = "rerun" /\ ~args[1].clobber /\ status[1] = "ok"
  /\ pc[2] = "exit"
  /\ Cardinality(TaskWrites(1)) = 2
  /\ Len(thetas[2]) = 2

\* C6: no file is written by two different writers: not by two tasks of one
\* run, not by two runs for different jobs (PSF files and metadata files).
C6_NoSharedWrites ==
  \A r1, r2 \in Runs :
    \A e1 \in wrote[r1] : \A e2 \in wrote[r2] :
      e1[1] = e2[1] => (r1 = r2 /\ e1[2] = e2[2])

\* C6 witness: two concurrent runs for different jobs have each written their
\* metadata file and two PSF files.
C6_Witness ==
  /\ Cardinality(TaskWrites(1)) = 2
  /\ Cardinality(TaskWrites(2)) = 2
  /\ \E e \in wrote[1] : e[2] = <<"meta">>
  /\ \E e \in wrote[2] : e[2] = <<"meta">>

IsPrefix(a, b) == Len(a) <= Len(b) /\ \A i \in 1..Len(a) : a[i] = b[i]

\* C7: a per-screen load that follows a per-screen dump reads back the dumped
\* screens in order, and the atmosphere it assembles has exactly those screens.
C7_PerScreenRoundTrip ==
  (origin[2] = "load" /\ args[2].dump_indiv_screens /\ args[1].nlayers >= 2) =>
    /\ IsPrefix(screens[2], atm[1].screens)
    /\ atm[2] # NoAtm => atm[2] = atm[1]

\* C8: when atmosphere synthesis fails for nlayers < 2, the run has written no
\* metadata file and no PSF file and has rendered nothing.
C8_NoPartialState ==
  \A r \in Runs :
    (args[r].nlayers < 2 /\ ~InvalidSharding(args[r]) /\ status[r] = "get_atm raised")
      => (wrote[r] = {} /\ rendered[r] = {})

NoRenderEffects(r) ==
  /\ rendered[r] = {}
  /\ ~pooled[r]
  /\ task[r] = <<>>
  /\ \A e \in wrote[r] : e[2][1] \in {"atm", "screen"}
  /\ pc[r] \in {"main", "dump_get_atm", "dump_write", "exit"}

DirError == "RuntimeError: Atm output directory is not a directory!"

\* the writes of a finished dump: the whole atmosphere to atmfile, or screen i
\* to atmfile with ".pkl" replaced by "_i.pkl"
DumpWrites(r) ==
  IF args[r].dump_indiv_screens
  THEN {<<thisatmfile(args[r].dump_atm, i), <<"screen", i>>>> :
          i \in 0..(Len(atm[r].screens) - 1)}
  ELSE {<<atmfile(args[r].dump_atm), <<"atm">>>>}

C10_ScanBounded ==
  \A r \in Runs :
    (Started(r) /\ ~IsDump(r) /\ args[r].load_atm # None /\ args[r].dump_indiv_screens
       /\ ValidArgs(args[r]))
      => scan[r] <= Cardinality(Files)

====
